---- MODULE Spec2Model ----
(***************************************************************************)
(* Model of mcp_stdio_bridge.py: a line-framed JSON-RPC bridge that reads  *)
(* one request per line from stdin, dispatches on the method name, calls   *)
(* the weather backend over HTTP for tools/call, and writes one JSON       *)
(* response per line to stdout.                                            *)
(*                                                                         *)
(* JSON and Python values are modelled by strings: Absent marks a key that *)
(* is not in a mapping, JsonNull is the JSON token null, None is Python's  *)
(* None.  Formatted text is a sequence of its pieces.                      *)
(***************************************************************************)
EXTENDS Integers, Sequences, FiniteSets, TLC

VARIABLES stdin, errors, pos, pc, stdout, stderr, posts, pending

vars == <<stdin, errors, pos, pc, stdout, stderr, posts, pending>>

\* ------------------------------------------------------------------ bounds
MaxLines == 2

\* ---------------------------------------------------------- value encoding
Absent == "<absent>"
JsonNull == "null"
None == "<None>"

HTTP_SERVER == "http://localhost:3000"
TOOL_NAME == "weather_info"

\* json.loads of a value token: JSON null becomes None
json_loads_value(tok) == IF tok = JsonNull THEN None ELSE tok

\* json.dump of a Python value: None becomes the token null
json_dump_value(v) == IF v = None THEN JsonNull ELSE v

\* dict.get(key) on a decoded mapping: a missing key gives the default
dict_get(tok, default) == IF tok = Absent THEN default ELSE json_loads_value(tok)

\* str() as used by the f-strings: None prints as the word None
py_str(v) == IF v = None THEN "None" ELSE v

\* the line taken as read, without strip()
strip_forgotten(line) == line

\* line.strip(): a whitespace-only line becomes the empty line
strip(line) == IF line.kind = "space" THEN [line EXCEPT !.kind = "empty"] ELSE line

\* ------------------------------------------------------------ input lines
NoParams == [t |-> "absent", name |-> Absent, arguments |-> Absent]
NullParams == [t |-> "null", name |-> Absent, arguments |-> Absent]
ListParams == [t |-> "list", name |-> Absent, arguments |-> Absent]
DictParams(name, arguments) == [t |-> "dict", name |-> name, arguments |-> arguments]

RawLine(kind) == [kind |-> kind, id |-> Absent, method |-> Absent, params |-> NoParams]
ObjectLine(id, method, params) ==
    [kind |-> "object", id |-> id, method |-> method, params |-> params]

Cities == "{\"cities\":[\"Paris\",\"Oslo\"]}"
PlainMethods == {Absent, "initialize", "tools/list", "ping",
                 "notifications/initialized", "resources/list"}

\* The lines that are not JSON objects, each kind standing for one line:
\*   "empty"      the line holding only its newline
\*   "space"      a line of blanks
\*   "badjson"    garbage            (text that does not begin a JSON value)
\*   "truncated"  {"id": 1,          (an object cut off after a comma)
\*   "notutf8"    the bytes ff fe followed by " garbage" (not UTF-8)
\*   "list"       [1, 2]
\*   "int"        5
\*   "str"        "ping"
\*   "bool"       true
\*   "NoneType"   null
\*   "float"      1.5
\* The last six are valid JSON that is not an object; their kind is the name
\* of the Python type json.loads gives.
NonObjectKinds == {"list", "int", "str", "bool", "NoneType", "float"}

RawLines ==
    {RawLine(k) : k \in {"empty", "space", "badjson", "truncated", "notutf8",
                         "list", "int"}}

\* the error handlers sys.stdin can have been opened with: strict in a UTF-8
\* locale, surrogateescape in the C and POSIX locales and in UTF-8 mode
StdinErrors == {"strict", "surrogateescape"}

PlainLines ==
    {ObjectLine("1", m, NoParams) : m \in PlainMethods}
    \cup {ObjectLine(Absent, m, NoParams) :
             m \in {Absent, "ping", "notifications/initialized", "resources/list"}}
    \cup {ObjectLine(JsonNull, "ping", NullParams),
          ObjectLine("1", "notifications/initialized", DictParams(Absent, Absent))}

\* tools/call lines that end without a backend call
LocalCallLines ==
    {ObjectLine("1", "tools/call", p) :
        p \in {NoParams, NullParams, ListParams, DictParams(Absent, Absent),
               DictParams("forecast", Cities)}}
    \cup {ObjectLine("2", "tools/call", DictParams("forecast", Absent))}

\* tools/call lines for the supported tool
WeatherCallLines ==
    {ObjectLine("1", "tools/call", DictParams(TOOL_NAME, Cities)),
     ObjectLine(Absent, "tools/call", DictParams(TOOL_NAME, Absent))}

Lines == RawLines \cup PlainLines \cup LocalCallLines \cup WeatherCallLines

Inputs == UNION {[1..n -> Lines] : n \in 0..MaxLines}

\* -------------------------------------------------------- backend outcomes
NoBody == [json |-> "none", error |-> Absent, timestamp |-> Absent,
           hasResults |-> FALSE, results |-> <<>>]
GarbageBody == [NoBody EXCEPT !.json = "invalid"]
ListBody == [NoBody EXCEPT !.json = "list"]
ErrorBody(e) == [NoBody EXCEPT !.json = "dict", !.error = e]
City(c, t, cond, h, w) ==
    [city |-> c, temperature |-> t, condition |-> cond, humidity |-> h, wind_speed |-> w]
WeatherBody(ts, rs) ==
    [json |-> "dict", error |-> Absent, timestamp |-> ts, hasResults |-> TRUE, results |-> rs]

Paris == City("Paris", "18", "Cloudy", "60", "12")
Oslo == City("Oslo", "-3.5", "Snow", "80", "20")
Timestamp == "2024-01-01T00:00:00Z"

Bodies200 ==
    {GarbageBody,
     WeatherBody(Timestamp, <<Paris, Oslo>>),
     WeatherBody(Timestamp, <<Oslo, Paris>>),
     WeatherBody(Absent, <<Paris>>),
     [WeatherBody(Timestamp, <<>>) EXCEPT !.hasResults = FALSE],
     WeatherBody(Timestamp, <<Paris, [Oslo EXCEPT !.humidity = Absent]>>)}
BodiesError ==
    {GarbageBody, ListBody, ErrorBody("city not found"), ErrorBody(Absent)}

HttpResponse(status, body) == [t |-> "response", status |-> status, body |-> body]
ConnectionError == [t |-> "ConnectionError", status |-> 0, body |-> NoBody]
ReadTimeout == [t |-> "ReadTimeout", status |-> 0, body |-> NoBody]
NoOutcome == [t |-> "pending", status |-> 0, body |-> NoBody]

PostOutcomes ==
    {HttpResponse(200, b) : b \in Bodies200}
    \cup {HttpResponse(404, b) : b \in BodiesError}
    \cup {HttpResponse(500, ErrorBody("upstream unavailable"))}
    \cup {ConnectionError, ReadTimeout}

ProbeOutcomes == {"200", "503", "fail"}

\* -------------------------------------------------------------- responses
NoResult == [t |-> "none", text |-> <<>>]

ResultResponse(request_id, result) ==
    [jsonrpc |-> "2.0", keys |-> {"jsonrpc", "id", "result"}, id |-> request_id,
     code |-> 0, message |-> <<>>, result |-> result]

ErrorResponse(request_id, code, message) ==
    [jsonrpc |-> "2.0", keys |-> {"jsonrpc", "id", "error"}, id |-> request_id,
     code |-> code, message |-> message, result |-> NoResult]

\* log_error: one diagnostic line on stderr
log_error(message) == <<"ERROR: ">> \o message

\* send_response of a bridge that refuses its first answer of the session,
\* as one that waits for initialize would
send_response_needs_init(stream, line, response) ==
    Append(stream,
           IF stream = <<>>
           THEN [line |-> line, jsonrpc |-> response.jsonrpc,
                 keys |-> {"jsonrpc", "id", "error"},
                 id |-> json_dump_value(response.id), code |-> -32002,
                 message |-> <<"Server not initialized">>, result |-> NoResult]
           ELSE [line |-> line, jsonrpc |-> response.jsonrpc, keys |-> response.keys,
                 id |-> json_dump_value(response.id), code |-> response.code,
                 message |-> response.message, result |-> response.result])

\* send_response writing in front of what is already on the stream
send_response_front(stream, line, response) ==
    <<[line |-> line, jsonrpc |-> response.jsonrpc, keys |-> response.keys,
       id |-> json_dump_value(response.id), code |-> response.code,
       message |-> response.message, result |-> response.result]>> \o stream

\* send_response: json.dump of the response followed by a newline, appended
\* to the output stream.  line is the number of the input line being
\* processed (history only, not part of the wire format).
send_response(stream, line, response) ==
    Append(stream, [line |-> line, jsonrpc |-> response.jsonrpc, keys |-> response.keys,
                    id |-> json_dump_value(response.id), code |-> response.code,
                    message |-> response.message, result |-> response.result])

handle_initialize(request_id) ==
    ResultResponse(request_id,
        [t |-> "initialize",
         text |-> <<"protocolVersion", "2024-11-05", "capabilities", "tools",
                    "serverInfo", "rust-weather-api", "0.3.0">>])

handle_list_tools(request_id) ==
    ResultResponse(request_id,
        [t |-> "tools",
         text |-> <<TOOL_NAME,
                    "Get weather information for specified cities from Rust Weather API",
                    "inputSchema", "object", "cities", "array", "string",
                    "List of city names (max 20)", "required", "cities">>])

handle_ping(request_id) == ResultResponse(request_id, [t |-> "empty", text |-> <<>>])

\* ------------------------------------------------------- handle_call_tool
\* What a block of code did: the responses it sent, the diagnostics it
\* logged, the exception it left with ("none" when it returned), and the
\* HTTP POST it is blocked in, if any.
Returned(responses, logs) ==
    [raised |-> "none", what |-> "", responses |-> responses, logs |-> logs,
     post |-> FALSE, body |-> Absent]
Raised(type, what, logs) ==
    [raised |-> type, what |-> what, responses |-> <<>>, logs |-> logs,
     post |-> FALSE, body |-> Absent]
Posting(body, logs) ==
    [raised |-> "none", what |-> "", responses |-> <<>>, logs |-> logs,
     post |-> TRUE, body |-> body]

\* request.get("params", {}): an absent key gives the empty mapping, a
\* present key gives whatever was decoded (None, a list, a mapping)
get_params(params) == IF params.t = "absent" THEN DictParams(Absent, Absent) ELSE params

\* handle_call_tool up to the point where requests.post is entered
handle_call_tool_begin(request_id, params) ==
    IF params.t # "dict"
    THEN Raised("AttributeError",
                IF params.t = "null" THEN "'NoneType' object has no attribute 'get'"
                                     ELSE "'list' object has no attribute 'get'", <<>>)
    ELSE LET tool_name == dict_get(params.name, None)
             arguments == dict_get(params.arguments, "{}")
         IN  IF tool_name # TOOL_NAME
             THEN Returned(<<ErrorResponse(request_id, -32601,
                                           <<"Unknown tool: ", py_str(tool_name)>>)>>, <<>>)
             ELSE Posting(arguments, <<>>)

\* the per-city lines with the last city of the mapping first
RECURSIVE city_lines_reversed(_)
city_lines_reversed(results) ==
    IF results = <<>> THEN <<>>
    ELSE LET info == Head(results)
         IN  city_lines_reversed(Tail(results))
             \o <<"\n", "\n\\ud83c\\udf0d ", info.city,
                  "\n", "   Temperature: ", info.temperature, "\\u00b0C",
                  "\n", "   Condition: ", info.condition,
                  "\n", "   Humidity: ", info.humidity, "%",
                  "\n", "   Wind Speed: ", info.wind_speed, " km/h">>

\* the per-city lines of the text, in the order of the results mapping
RECURSIVE city_lines(_)
city_lines(results) ==
    IF results = <<>> THEN <<>>
    ELSE LET info == Head(results)
         IN  <<"\n", "\n\\ud83c\\udf0d ", info.city,
               "\n", "   Temperature: ", info.temperature, "\\u00b0C",
               "\n", "   Condition: ", info.condition,
               "\n", "   Humidity: ", info.humidity, "%",
               "\n", "   Wind Speed: ", info.wind_speed, " km/h">>
             \o city_lines(Tail(results))

\* "\n".join(results_text): a "\n" piece between two list items; the first
\* item of a city block itself starts with a newline
format_results(data) ==
    <<"Weather Information (Retrieved: ", data.timestamp, ")",
      "\n", "============================================================">>
    \o city_lines(data.results)

\* the first key the formatting code looks up and does not find, as
\* str(KeyError) prints it
RECURSIVE missing_city_key(_)
missing_city_key(results) ==
    IF results = <<>> THEN Absent
    ELSE LET info == Head(results)
         IN  IF info.temperature = Absent THEN "'temperature'"
             ELSE IF info.condition = Absent THEN "'condition'"
             ELSE IF info.humidity = Absent THEN "'humidity'"
             ELSE IF info.wind_speed = Absent THEN "'wind_speed'"
             ELSE missing_city_key(Tail(results))

missing_key(data) ==
    IF data.timestamp = Absent THEN "'timestamp'"
    ELSE IF ~data.hasResults THEN "'results'"
    ELSE missing_city_key(data.results)

\* response.status_code == 200 branch
on_status_200(request_id, body) ==
    IF body.json = "invalid"
    THEN Raised("JSONDecodeError", "Expecting value: line 1 column 1 (char 0)", <<>>)
    ELSE IF body.json = "list"
    THEN Raised("TypeError", "list indices must be integers or slices, not str", <<>>)
    ELSE IF missing_key(body) # Absent
    THEN Raised("KeyError", missing_key(body), <<>>)
    ELSE Returned(<<ResultResponse(request_id,
                        [t |-> "content", text |-> format_results(body)])>>, <<>>)

\* the else branch: any status other than 200
on_status_other(request_id, status, body) ==
    IF body.json = "invalid"
    THEN Raised("JSONDecodeError", "Expecting value: line 1 column 1 (char 0)", <<>>)
    ELSE IF body.json = "list"
    THEN Raised("AttributeError", "'list' object has no attribute 'get'", <<>>)
    ELSE Returned(<<ErrorResponse(request_id, status,
                        <<dict_get(body.error, "HTTP request failed")>>)>>, <<>>)

\* str() of the ReadTimeout that requests raises when the backend accepts
\* the POST and sends nothing for the 10 seconds of timeout=10
ReadTimeoutText ==
    "HTTPConnectionPool(host='localhost', port=3000): Read timed out. (read timeout=10)"

\* the body of the try statement once requests.post has ended
try_post(request_id, outcome) ==
    IF outcome.t = "ConnectionError"
    THEN Raised("ConnectionError", "Connection refused", <<>>)
    ELSE IF outcome.t = "ReadTimeout"
    THEN Raised("ReadTimeout", ReadTimeoutText, <<>>)
    ELSE IF outcome.status = 200
    THEN on_status_200(request_id, outcome.body)
    ELSE on_status_other(request_id, outcome.status, outcome.body)

\* the generic except clause logging without answering
except_exception_silent(request_id, what) ==
    Returned(<<>>, <<log_error(<<"Error calling HTTP endpoint: ", what>>)>>)

except_exception(request_id, what) ==
    Returned(<<ErrorResponse(request_id, -32603, <<"Internal error: ", what>>)>>,
             <<log_error(<<"Error calling HTTP endpoint: ", what>>)>>)

\* the connection failure handled as any other exception
except_connection_error_generic(request_id) ==
    except_exception(request_id, "Connection refused")

except_connection_error(request_id) ==
    Returned(<<ErrorResponse(request_id, -32603,
        <<"Cannot connect to Rust Weather API server. Please ensure 'cargo run --bin server' is running on port 3000.">>)>>,
        <<>>)

\* handle_call_tool answering with the generic error after the try block
\* has already answered
handle_call_tool_reply_twice(request_id, outcome) ==
    LET r == try_post(request_id, outcome)
    IN  IF r.raised = "none"
        THEN [r EXCEPT !.responses = @ \o except_exception(request_id, "").responses]
        ELSE IF r.raised = "ConnectionError" THEN except_connection_error(request_id)
        ELSE except_exception(request_id, r.what)

\* handle_call_tool from the end of requests.post to its return
handle_call_tool_reply(request_id, outcome) ==
    LET r == try_post(request_id, outcome)
    IN  IF r.raised = "none" THEN r
        ELSE IF r.raised = "ConnectionError" THEN except_connection_error(request_id)
        ELSE except_exception(request_id, r.what)

\* ------------------------------------------------------------------- main
\* the if/elif chain with ping as the fallback instead of the error
dispatch_unknown_as_ping(method) ==
    IF method = "initialize" THEN "handle_initialize"
    ELSE IF method = "tools/list" THEN "handle_list_tools"
    ELSE IF method = "tools/call" THEN "handle_call_tool"
    ELSE IF method = "notifications/initialized" THEN "pass"
    ELSE "handle_ping"

\* the if/elif chain without the notifications/initialized branch
dispatch_without_pass(method) ==
    IF method = "initialize" THEN "handle_initialize"
    ELSE IF method = "tools/list" THEN "handle_list_tools"
    ELSE IF method = "tools/call" THEN "handle_call_tool"
    ELSE IF method = "ping" THEN "handle_ping"
    ELSE "method_not_found"

\* the if/elif chain on the method name
dispatch(method) ==
    IF method = "initialize" THEN "handle_initialize"
    ELSE IF method = "tools/list" THEN "handle_list_tools"
    ELSE IF method = "tools/call" THEN "handle_call_tool"
    ELSE IF method = "ping" THEN "handle_ping"
    ELSE IF method = "notifications/initialized" THEN "pass"
    ELSE "method_not_found"

\* str() of the JSONDecodeError json.loads raises for a line.  A line that
\* is not UTF-8 reaches json.loads only when stdin is read with
\* surrogateescape, as text that begins with a lone surrogate.
json_loads_error(kind) ==
    IF kind = "truncated"
    THEN "Expecting property name enclosed in double quotes: line 1 column 10 (char 9)"
    ELSE "Expecting value: line 1 column 1 (char 0)"

\* the body of the try statement of the read loop, for one line
process_line(raw) ==
    LET line == strip(raw)
    IN  IF line.kind = "empty" THEN Returned(<<>>, <<>>)
        ELSE IF line.kind \in {"badjson", "truncated", "notutf8", "space"}
        THEN Raised("JSONDecodeError", json_loads_error(line.kind), <<>>)
        ELSE IF line.kind \in NonObjectKinds
        THEN Raised("AttributeError",
                    "'" \o line.kind \o "' object has no attribute 'get'", <<>>)
        ELSE LET request_id == dict_get(line.id, None)
                 method == dict_get(line.method, None)
                 params == get_params(line.params)
                 received == <<log_error(<<"Received request: ", py_str(method)>>)>>
                 handler == dispatch(method)
                 done ==
                    IF handler = "handle_initialize"
                    THEN Returned(<<handle_initialize(request_id)>>, <<>>)
                    ELSE IF handler = "handle_list_tools"
                    THEN Returned(<<handle_list_tools(request_id)>>, <<>>)
                    ELSE IF handler = "handle_call_tool"
                    THEN handle_call_tool_begin(request_id, params)
                    ELSE IF handler = "handle_ping"
                    THEN Returned(<<handle_ping(request_id)>>, <<>>)
                    ELSE IF handler = "pass"
                    THEN Returned(<<>>, <<>>)
                    ELSE Returned(<<ErrorResponse(request_id, -32601,
                                      <<"Method not found: ", py_str(method)>>)>>, <<>>)
             IN  [done EXCEPT !.logs = received \o @]

\* the except clauses of the read loop: log and go on with the next line
main_except(raised, what) ==
    IF raised = "none" THEN [next |-> "read", logs |-> <<>>]
    ELSE IF raised = "JSONDecodeError"
    THEN [next |-> "read", logs |-> <<log_error(<<"Invalid JSON: ", what>>)>>]
    ELSE [next |-> "read", logs |-> <<log_error(<<"Error processing request: ", what>>)>>]

\* the startup probe: GET /mcp with a 2 second timeout, logged only
probe_logs(outcome) ==
    IF outcome = "200"
    THEN <<log_error(<<"Successfully connected to Rust Weather API HTTP server">>)>>
    ELSE IF outcome = "fail"
    THEN <<log_error(<<"WARNING: Cannot connect to Rust Weather API HTTP server on port 3000">>),
           log_error(<<"Please start the server with: cargo run --bin server">>)>>
    ELSE <<log_error(<<"WARNING: Rust Weather API HTTP server returned unexpected status">>)>>

\* all responses of one block written to the stream, in order
RECURSIVE send_all(_, _, _)
send_all(stream, line, responses) ==
    IF responses = <<>> THEN stream
    ELSE send_all(send_response(stream, line, Head(responses)), line, Tail(responses))

\* requests.post issued twice for one call, as a retrying transport would
requests_post_retry(log, line, body) ==
    Append(Append(log, [line |-> line, url |-> <<HTTP_SERVER, "/mcp/tool/weather_info">>,
                        body |-> body, outcome |-> NoOutcome]),
           [line |-> line, url |-> <<HTTP_SERVER, "/mcp/tool/weather_info">>,
            body |-> body, outcome |-> NoOutcome])

\* requests.post: one POST to the tool endpoint with the arguments as body
requests_post(log, line, body) ==
    Append(log, [line |-> line, url |-> <<HTTP_SERVER, "/mcp/tool/weather_info">>,
                 body |-> body, outcome |-> NoOutcome])

\* the loop going on to the next line while the POST is still outstanding
after_block_async(r, e) == e.next

\* where the loop is after a block of one iteration: inside the blocking
\* requests.post, or at the top of the loop for the next line
after_block(r, e) == IF r.post THEN "http" ELSE e.next

\* a failed probe ending main
after_probe_fatal(outcome) == IF outcome = "200" THEN "read" ELSE "done"

\* the probe's try/except: every outcome is logged and the loop is entered
after_probe(outcome) == "read"

\* the traceback the interpreter prints when main ends with the
\* UnicodeDecodeError of the stdin decoder; the byte offset it names depends
\* on where the chunk begins and is left out
traceback ==
    <<"Traceback (most recent call last):",
      "UnicodeDecodeError: 'utf-8' codec can't decode byte 0xff", ": invalid start byte">>

\* the lines of the input that the strict decoder refuses
Undecodable(lines) == {j \in 1..Len(lines) : lines[j].kind = "notutf8"}

\* The handler matters only to an input with a line that is not UTF-8, so
\* strict is told apart for those inputs only.
HandlersFor(lines) ==
    IF Undecodable(lines) # {} THEN StdinErrors ELSE {"surrogateescape"}

\* ---------------------------------------------------------------- actions
Init ==
    /\ stdin \in Inputs
    /\ errors \in HandlersFor(stdin)
    /\ pos = 0
    /\ pc = "start"
    /\ stdout = <<>>
    /\ stderr = <<>>
    /\ posts = <<>>
    /\ pending = None

\* main() up to the entry of the probe's requests.get: the start line is
\* logged and flushed before the GET is sent
Startup ==
    /\ pc = "start"
    /\ stderr' = <<log_error(<<"MCP stdio bridge started">>)>>
    /\ pc' = "probe"
    /\ UNCHANGED <<stdin, errors, pos, stdout, posts, pending>>

\* the probe's requests.get ends (status 200, another status, or any
\* exception) and its result is logged
Probe ==
    /\ pc = "probe"
    /\ \E outcome \in ProbeOutcomes :
          /\ stderr' = stderr \o probe_logs(outcome)
          /\ pc' = after_probe(outcome)
    /\ UNCHANGED <<stdin, errors, pos, stdout, posts, pending>>

\* `for line in sys.stdin` raises: stdin is decoded a chunk at a time, the
\* chunk holds the next line and whatever has arrived after it, and the
\* strict decoder refuses the whole chunk when any of it is not UTF-8.  The
\* read is outside the try statement, so main ends with the exception and
\* no line of the chunk reaches the loop body.
ReadFails ==
    /\ pc = "read"
    /\ errors = "strict"
    /\ \E j \in Undecodable(stdin) : j > pos
    /\ pc' = "crashed"
    /\ stderr' = Append(stderr, traceback)
    /\ UNCHANGED <<stdin, errors, pos, stdout, posts, pending>>

\* one iteration of the read loop, up to its end or to the entry of
\* requests.post
ReadLine ==
    /\ pc = "read"
    /\ pos < Len(stdin)
    /\ ~(errors = "strict" /\ pos + 1 \in Undecodable(stdin))
    /\ LET r == process_line(stdin[pos + 1])
           e == main_except(r.raised, r.what)
       IN  /\ pos' = pos + 1
           /\ stdout' = send_all(stdout, pos + 1, r.responses)
           /\ stderr' = stderr \o r.logs \o e.logs
           /\ pc' = after_block(r, e)
           /\ IF r.post
              THEN /\ pending' = dict_get(stdin[pos + 1].id, None)
                   /\ posts' = requests_post(posts, pos + 1, r.body)
              ELSE UNCHANGED <<pending, posts>>
    /\ UNCHANGED <<stdin, errors>>

\* requests.post ends (reply, connection failure or timeout) and
\* handle_call_tool runs to its return
HttpComplete ==
    /\ pc = "http"
    /\ \E outcome \in PostOutcomes :
          LET r == handle_call_tool_reply(pending, outcome)
              e == main_except(r.raised, r.what)
          IN  /\ stdout' = send_all(stdout, pos, r.responses)
              /\ stderr' = stderr \o r.logs \o e.logs
              /\ posts' = [posts EXCEPT ![Len(posts)].outcome = outcome]
              /\ pc' = e.next
    /\ pending' = None
    /\ UNCHANGED <<stdin, errors, pos>>

\* the for loop over sys.stdin ends and main returns
EndOfInput ==
    /\ pc = "read"
    /\ pos = Len(stdin)
    /\ pc' = "done"
    /\ UNCHANGED <<stdin, errors, pos, stdout, stderr, posts, pending>>

Next == Startup \/ Probe \/ ReadFails \/ ReadLine \/ HttpComplete \/ EndOfInput

Spec == Init /\ [][Next]_vars

\* One line of each kind the loop tells apart, for the termination check.
LiveLines ==
    {RawLine("empty"), RawLine("badjson"), RawLine("notutf8"), RawLine("list"),
     ObjectLine("1", "ping", NoParams),
     ObjectLine(Absent, "notifications/initialized", NoParams),
     ObjectLine("1", "resources/list", NoParams),
     ObjectLine("1", "tools/call", NullParams),
     ObjectLine("1", "tools/call", DictParams("forecast", Cities)),
     ObjectLine("1", "tools/call", DictParams(TOOL_NAME, Cities))}

LiveInputs == UNION {[1..n -> LiveLines] : n \in 0..MaxLines}

LiveInit ==
    /\ stdin \in LiveInputs
    /\ errors \in HandlersFor(stdin)
    /\ pos = 0
    /\ pc = "start"
    /\ stdout = <<>>
    /\ stderr = <<>>
    /\ posts = <<>>
    /\ pending = None

\* The bridge is one sequential process that always takes its next step,
\* and every backend call ends (reply, failure or the 10 second timeout).
LiveSpec == LiveInit /\ [][Next]_vars /\ WF_vars(Next)

\* ------------------------------------------------------------- properties
\* line i has been processed to the end of its loop iteration
Done(i) == i \in 1..pos /\ ~(i = pos /\ pc = "http")

\* the positions on stdout of the responses written while line i was processed
Responses(i) == {k \in 1..Len(stdout) : stdout[k].line = i}

\* the backend calls issued while line i was processed
PostsOf(i) == {j \in 1..Len(posts) : posts[j].line = i}

\* an empty or whitespace-only line
Blank(line) == line.kind \in {"empty", "space"}

IsRequest(i) == stdin[i].kind = "object"
HasId(i) == IsRequest(i) /\ stdin[i].id # Absent
IsToolCall(i) == IsRequest(i) /\ stdin[i].method = "tools/call"
ParamsIsMapping(i) == stdin[i].params.t \in {"absent", "dict"}
NamesWeatherTool(i) == ParamsIsMapping(i) /\ stdin[i].params.name = TOOL_NAME

IsError(k) == "error" \in stdout[k].keys /\ "result" \notin stdout[k].keys
IsResult(k) == "result" \in stdout[k].keys /\ "error" \notin stdout[k].keys

\* a status-200 body that decodes and has every expected field
CompleteBody(b) ==
    /\ b.json = "dict"
    /\ b.timestamp # Absent
    /\ b.hasResults
    /\ \A j \in 1..Len(b.results) :
          /\ b.results[j].temperature # Absent
          /\ b.results[j].condition # Absent
          /\ b.results[j].humidity # Absent
          /\ b.results[j].wind_speed # Absent

\* the backend outcome of line i is o
Outcome(i, o) == \E j \in PostsOf(i) : posts[j].outcome = o

\* ---- C1
\* C1 as stated: every processed request line that carries an id, whatever
\* its method, params and backend outcome, has exactly one response on
\* stdout, carrying the same id.
C1_EveryIdAnsweredOnce ==
    \A i \in 1..pos :
        (Done(i) /\ HasId(i)) =>
            /\ Cardinality(Responses(i)) = 1
            /\ \A k \in Responses(i) : "id" \in stdout[k].keys /\ stdout[k].id = stdin[i].id

\* ---- C2
\* C2 as stated: a request line without an id never gets a response line,
\* for any method.
C2_NoResponseWithoutId ==
    \A k \in 1..Len(stdout) : stdin[stdout[k].line].id # Absent

\* ---- C3
\* a tools/call that did not end in a success result
FailedToolCall(i) ==
    /\ IsToolCall(i)
    /\ \/ ~ParamsIsMapping(i)
       \/ ~NamesWeatherTool(i)
       \/ \E j \in PostsOf(i) :
             ~(posts[j].outcome.t = "response" /\ posts[j].outcome.status = 200
               /\ CompleteBody(posts[j].outcome.body))

\* C3 as stated: every tools/call that fails after its line was parsed
\* (unknown tool, non-mapping or null params, non-200 status, connection
\* failure, timeout, undecodable or incomplete body) has exactly one
\* response, an error, carrying the request's id.
C3_FailedCallGetsOneError ==
    \A i \in 1..pos :
        (Done(i) /\ FailedToolCall(i)) =>
            /\ Cardinality(Responses(i)) = 1
            /\ \A k \in Responses(i) :
                  IsError(k) /\ (HasId(i) => stdout[k].id = stdin[i].id)

\* ---- C4
\* the message the claim expects for a non-200 body
ExpectedHttpMessage(b) ==
    IF b.json = "dict" /\ b.error # Absent THEN <<b.error>> ELSE <<"HTTP request failed">>

\* C4 as stated: a backend reply with a status other than 200 gives an error
\* whose code is the status and whose message is the body's error field, or
\* "HTTP request failed" when the field is absent or the body does not
\* decode.
C4_Non200MirrorsStatus ==
    \A i \in 1..pos : \A j \in PostsOf(i) :
        (Done(i) /\ posts[j].outcome.t = "response" /\ posts[j].outcome.status # 200) =>
            /\ Responses(i) # {}
            /\ \A k \in Responses(i) :
                  /\ IsError(k)
                  /\ stdout[k].code = posts[j].outcome.status
                  /\ stdout[k].message = ExpectedHttpMessage(posts[j].outcome.body)

\* ---- C5
\* C5: no line on stdout was written for a request whose method is
\* notifications/initialized, with or without id and params.
C5_InitializedNotificationSilent ==
    \A k \in 1..Len(stdout) :
        ~(IsRequest(stdout[k].line)
          /\ stdin[stdout[k].line].method = "notifications/initialized")

C5_Witness ==
    /\ pc = "done"
    /\ \E i \in 1..pos :
          /\ stdin[i] = ObjectLine("1", "notifications/initialized",
                                   DictParams(Absent, Absent))
          /\ Responses(i) = {}
    /\ \E i \in 1..pos :
          /\ stdin[i] = ObjectLine(Absent, "notifications/initialized", NoParams)
          /\ Responses(i) = {}

\* ---- C6
\* C6 as stated: a response carries the id of the line it was written for,
\* and has no id member at all when that line has none.
C6_IdEchoedAbsentStaysAbsent ==
    \A k \in 1..Len(stdout) :
        IF stdin[stdout[k].line].id = Absent
        THEN "id" \notin stdout[k].keys
        ELSE "id" \in stdout[k].keys /\ stdout[k].id = stdin[stdout[k].line].id

\* ---- C7
\* C7: responses are on stdout in the order their lines were read, each
\* written while its own line is the one being processed.
C7_ResponsesInInputOrder ==
    /\ \A j, k \in 1..Len(stdout) :
          stdout[j].line < stdout[k].line => j < k
    /\ \A k \in 1..Len(stdout) : stdout[k].line \in 1..pos

C7_Witness ==
    /\ Len(stdout) = 2
    /\ stdout[1].line = 1 /\ stdout[2].line = 2
    /\ IsToolCall(1) /\ PostsOf(1) # {} /\ IsResult(1)
    /\ stdin[2].method = "ping"

\* ---- C8
\* the stream without the line numbers kept for history
Wire(stream) == [k \in 1..Len(stream) |-> [stream[k] EXCEPT !.line = 0]]

\* a line that is not valid structured data: not JSON, or not even text
Malformed(line) == line.kind \in {"badjson", "truncated", "notutf8"}

\* the lines of an input that are not malformed, in order
RECURSIVE WellFormed(_)
WellFormed(lines) ==
    IF lines = <<>> THEN <<>>
    ELSE IF Malformed(Head(lines)) THEN WellFormed(Tail(lines))
    ELSE <<Head(lines)>> \o WellFormed(Tail(lines))

\* what the bridge writes for an input, the backend's outcomes taken in
\* the order of the calls
RECURSIVE Answers(_, _, _)
Answers(stream, lines, outcomes) ==
    IF lines = <<>> THEN stream
    ELSE LET r == process_line(Head(lines))
         IN  IF r.post
             THEN Answers(send_all(stream, 0,
                             handle_call_tool_reply(dict_get(Head(lines).id, None),
                                                    Head(outcomes)).responses),
                          Tail(lines), Tail(outcomes))
             ELSE Answers(send_all(stream, 0, r.responses), Tail(lines), outcomes)

\* C8 as stated: a line that is not valid structured data has no response
\* on stdout; once main has ended, every well-formed line that follows a
\* malformed one has been processed, and when main has returned stdout
\* holds what the input without its malformed lines would have produced.
C8_MalformedLineSkipped ==
    /\ \A k \in 1..Len(stdout) : ~Malformed(stdin[stdout[k].line])
    /\ pc \in {"done", "crashed"} =>
          \A m, i \in 1..Len(stdin) :
              (Malformed(stdin[m]) /\ m < i /\ ~Malformed(stdin[i]) /\ ~Blank(stdin[i]))
                  => Done(i)
    /\ pc = "done" =>
          Wire(stdout) =
              Answers(<<>>, WellFormed(stdin), [j \in 1..Len(posts) |-> posts[j].outcome])

\* ---- C9
\* the tool name as the message prints it
PrintedName(i) == IF stdin[i].params.name = Absent THEN "None" ELSE stdin[i].params.name

\* C9 as stated: a tools/call whose tool name is anything other than
\* weather_info, a missing name included, has exactly one response, an
\* error with code -32601 whose message contains the name, whatever the
\* arguments; no backend call is issued for it.
C9_UnknownToolRejected ==
    \A i \in 1..pos :
        (IsToolCall(i) /\ ~NamesWeatherTool(i)) =>
            /\ PostsOf(i) = {}
            /\ Cardinality(Responses(i)) = 1
            /\ \A k \in Responses(i) :
                  /\ IsError(k)
                  /\ stdout[k].code = -32601
                  /\ \E m \in 1..Len(stdout[k].message) :
                        stdout[k].message[m] = PrintedName(i)

\* ---- C10
\* C10: a weather_info call whose POST ends in a connection failure has
\* exactly one response, the error -32603 with the fixed message about
\* starting the server on port 3000.
C10_ConnectionFailureReported ==
    \A i \in 1..pos :
        (Done(i) /\ Outcome(i, ConnectionError)) =>
            /\ Cardinality(Responses(i)) = 1
            /\ \A k \in Responses(i) :
                  /\ IsError(k)
                  /\ stdout[k].code = -32603
                  /\ stdout[k].message =
                        <<"Cannot connect to Rust Weather API server. Please ensure 'cargo run --bin server' is running on port 3000.">>

C10_Witness ==
    \E i \in 1..pos :
        /\ Done(i)
        /\ NamesWeatherTool(i)
        /\ Outcome(i, ConnectionError)
        /\ \E k \in Responses(i) : stdout[k].code = -32603 /\ stdout[k].id = "1"

\* ---- C11
KnownMethods == {"initialize", "tools/list", "tools/call", "ping",
                 "notifications/initialized"}

\* the method as the message prints it
PrintedMethod(i) == IF stdin[i].method = Absent THEN "None" ELSE stdin[i].method

\* C11: a request whose method is none of the five known ones, or is
\* missing, has exactly one response, the error -32601 "Method not found:
\* <method>", and no backend call.
C11_UnknownMethodRejected ==
    \A i \in 1..pos :
        (IsRequest(i) /\ stdin[i].method \notin KnownMethods) =>
            /\ PostsOf(i) = {}
            /\ Cardinality(Responses(i)) = 1
            /\ \A k \in Responses(i) :
                  /\ IsError(k)
                  /\ stdout[k].code = -32601
                  /\ stdout[k].message = <<"Method not found: ", PrintedMethod(i)>>

C11_Witness ==
    /\ pc = "done"
    /\ \E i \in 1..pos :
          /\ stdin[i] = ObjectLine("1", "resources/list", NoParams)
          /\ \E k \in Responses(i) :
                stdout[k].message = <<"Method not found: ", "resources/list">>
    /\ \E i \in 1..pos :
          /\ stdin[i] = ObjectLine("1", Absent, NoParams)
          /\ \E k \in Responses(i) : stdout[k].message = <<"Method not found: ", "None">>

\* ---- C12
\* what was written for line i, without the history field
LineAnswers(i) ==
    LET OfLine(x) == x.line = i
    IN  Wire(SelectSeq(stdout, OfLine))

\* the backend outcomes of line i, in the order of its calls
LineOutcomes(i) ==
    LET OfLine(x) == x.line = i
        mine == SelectSeq(posts, OfLine)
    IN  [j \in 1..Len(mine) |-> mine[j].outcome]

\* C12: what is written for a line is what a bridge that has read nothing
\* else writes for that line under the same backend outcome; two equal
\* lines with equal outcomes have equal responses.
C12_ResponseDependsOnLineOnly ==
    /\ \A i \in 1..pos :
          Done(i) => LineAnswers(i) = Answers(<<>>, <<stdin[i]>>, LineOutcomes(i))
    /\ \A i, j \in 1..pos :
          (Done(i) /\ Done(j) /\ stdin[i] = stdin[j] /\ LineOutcomes(i) = LineOutcomes(j))
              => LineAnswers(i) = LineAnswers(j)

C12_Witness ==
    /\ pc = "done"
    /\ Len(stdin) = 2
    /\ stdin[1] = ObjectLine("1", "tools/call", DictParams(TOOL_NAME, Cities))
    /\ stdin[2] = stdin[1]
    /\ LineOutcomes(1) = <<HttpResponse(200, WeatherBody(Timestamp, <<Paris, Oslo>>))>>
    /\ LineOutcomes(2) = LineOutcomes(1)
    /\ Len(stdout) = 2
    /\ IsResult(1) /\ IsResult(2)

\* ---- C13
\* C13: a status-200 reply with a complete body gives one success response
\* whose text is the header with the timestamp, the separator rule, and
\* one block per city in the order of the results mapping, each with
\* temperature, condition, humidity and wind speed in that order.
C13_SuccessTextLayout ==
    \A i \in 1..pos : \A j \in PostsOf(i) :
        (Done(i) /\ posts[j].outcome.t = "response" /\ posts[j].outcome.status = 200
         /\ CompleteBody(posts[j].outcome.body)) =>
            /\ Cardinality(Responses(i)) = 1
            /\ \A k \in Responses(i) :
                  LET b == posts[j].outcome.body
                      text == stdout[k].result.text
                  IN  /\ IsResult(k)
                      /\ stdout[k].result.t = "content"
                      /\ Len(text) = 5 + 18 * Len(b.results)
                      /\ text[1] = "Weather Information (Retrieved: "
                      /\ text[2] = b.timestamp
                      /\ text[3] = ")"
                      /\ text[4] = "\n"
                      /\ text[5] = "============================================================"
                      /\ \A c \in 1..Len(b.results) :
                            LET o == 5 + 18 * (c - 1)
                            IN  /\ text[o + 3] = b.results[c].city
                                /\ text[o + 5] = "   Temperature: "
                                /\ text[o + 6] = b.results[c].temperature
                                /\ text[o + 9] = "   Condition: "
                                /\ text[o + 10] = b.results[c].condition
                                /\ text[o + 12] = "   Humidity: "
                                /\ text[o + 13] = b.results[c].humidity
                                /\ text[o + 16] = "   Wind Speed: "
                                /\ text[o + 17] = b.results[c].wind_speed

C13_Witness ==
    \E i \in 1..pos :
        /\ Done(i)
        /\ Outcome(i, HttpResponse(200, WeatherBody(Timestamp, <<Oslo, Paris>>)))
        /\ \E k \in Responses(i) :
              /\ stdout[k].result.text[8] = "Oslo"
              /\ stdout[k].result.text[26] = "Paris"
              /\ stdout[k].result.text[33] = "Cloudy"

\* ---- C14
\* a city record with one of its four fields missing
IncompleteCity(info) ==
    \/ info.temperature = Absent
    \/ info.condition = Absent
    \/ info.humidity = Absent
    \/ info.wind_speed = Absent

\* str(e) of the exception a failed call ends with
FailureDescription(o) ==
    IF o.t = "ReadTimeout" THEN ReadTimeoutText
    ELSE IF o.body.json = "invalid" THEN "Expecting value: line 1 column 1 (char 0)"
    ELSE IF o.body.json = "list" THEN "list indices must be integers or slices, not str"
    ELSE IF o.body.timestamp = Absent THEN "'timestamp'"
    ELSE IF ~o.body.hasResults THEN "'results'"
    ELSE LET rs == o.body.results
             c == CHOOSE c \in 1..Len(rs) :
                      /\ IncompleteCity(rs[c])
                      /\ \A d \in 1..(c - 1) : ~IncompleteCity(rs[d])
         IN  IF rs[c].temperature = Absent THEN "'temperature'"
             ELSE IF rs[c].condition = Absent THEN "'condition'"
             ELSE IF rs[c].humidity = Absent THEN "'humidity'"
             ELSE "'wind_speed'"

\* a status-200 reply that cannot be formatted, or a read timeout
UnexpectedFailure(o) ==
    \/ o.t = "ReadTimeout"
    \/ o.t = "response" /\ o.status = 200 /\ ~CompleteBody(o.body)

\* C14: a status-200 reply whose body does not decode or lacks an expected
\* field, and a read timeout, give exactly one response, the error -32603
\* "Internal error: <description>", never a success; the read loop goes
\* on to the end of the input.
C14_UnexpectedFailureReported ==
    /\ \A i \in 1..pos : \A j \in PostsOf(i) :
          (Done(i) /\ UnexpectedFailure(posts[j].outcome)) =>
              /\ Cardinality(Responses(i)) = 1
              /\ \A k \in Responses(i) :
                    /\ IsError(k)
                    /\ stdout[k].code = -32603
                    /\ stdout[k].message =
                          <<"Internal error: ", FailureDescription(posts[j].outcome)>>
    /\ pc = "done" => pos = Len(stdin)

C14_Witness ==
    /\ pc = "done"
    /\ Len(stdin) = 2
    /\ Outcome(1, HttpResponse(200, WeatherBody(Timestamp,
                                   <<Paris, [Oslo EXCEPT !.humidity = Absent]>>)))
    /\ Outcome(2, ReadTimeout)
    /\ Len(stdout) = 2
    /\ stdout[1].message = <<"Internal error: ", "'humidity'">>
    /\ stdout[2].message =
          <<"Internal error: ",
            "HTTPConnectionPool(host='localhost', port=3000): Read timed out. (read timeout=10)">>

\* ---- C15
\* C15: a tools/call naming weather_info has issued exactly one POST, also
\* after a non-200 status, a connection failure or a timeout; every other
\* line has issued none.
C15_OnePostPerWeatherCall ==
    /\ \A i \in 1..pos :
          Cardinality(PostsOf(i)) =
              (IF IsToolCall(i) /\ NamesWeatherTool(i) THEN 1 ELSE 0)
    /\ \A j \in 1..Len(posts) : posts[j].line \in 1..pos

C15_Witness ==
    /\ pc = "done"
    /\ Len(stdin) = 2
    /\ Outcome(1, ConnectionError)
    /\ Outcome(2, HttpResponse(500, ErrorBody("upstream unavailable")))
    /\ Len(posts) = 2

\* ---- C16
\* the backend calls that have not ended yet
InFlight == {j \in 1..Len(posts) : posts[j].outcome.t = "pending"}

\* C16: at most one backend call is outstanding, it belongs to the line
\* read last, and the loop is then inside requests.post; a line is read
\* only when no call is outstanding, and every response is written while
\* its own line is the last one read.
C16_NoReadAhead ==
    /\ [](/\ Cardinality(InFlight) <= 1
          /\ (pc = "http") <=> (InFlight # {})
          /\ \A j \in InFlight : posts[j].line = pos)
    /\ [][/\ pos' # pos => (pc = "read" /\ InFlight = {} /\ pos' = pos + 1)
          /\ Len(stdout') >= Len(stdout)
          /\ SubSeq(stdout', 1, Len(stdout)) = stdout
          /\ \A k \in (Len(stdout) + 1)..Len(stdout') : stdout'[k].line = pos']_vars

C16_Witness ==
    /\ pc = "http"
    /\ pos = 1
    /\ Len(stdin) = 2
    /\ InFlight = {1}
    /\ stdout = <<>>

\* ---- C17
\* C17 as stated: with a finite input and backend calls that all end, the
\* bridge eventually has consumed every line and main has returned; main
\* never ends before the end of the input, whatever a line holds.
C17_ConsumesAllThenTerminates ==
    /\ <>(pc = "done" /\ pos = Len(stdin))
    /\ [](pc \in {"done", "crashed"} => pos = Len(stdin))

\* ---- C18
\* the diagnostics that report the result of the startup probe
ProbeDiagnostics ==
    {log_error(<<"Successfully connected to Rust Weather API HTTP server">>),
     log_error(<<"WARNING: Rust Weather API HTTP server returned unexpected status">>),
     log_error(<<"WARNING: Cannot connect to Rust Weather API HTTP server on port 3000">>)}

\* the outcomes of all backend calls so far, in order
AllOutcomes == [j \in 1..Len(posts) |-> posts[j].outcome]

\* C18: the probe runs once, after the start line is logged and before any
\* line is read, and writes nothing to stdout; whatever its result, the
\* loop is entered, main returns only at the end of the input, and stdout
\* then holds exactly what the requests and the backend outcomes determine.
C18_ProbeAdvisory ==
    /\ pc = "start" => (pos = 0 /\ stderr = <<>>)
    /\ pc = "probe" =>
          (pos = 0 /\ stderr = <<log_error(<<"MCP stdio bridge started">>)>>)
    /\ pos = 0 => stdout = <<>>
    /\ pc \notin {"start", "probe"} =>
          /\ stderr[2] \in ProbeDiagnostics
          /\ Cardinality({n \in 1..Len(stderr) : stderr[n] \in ProbeDiagnostics}) = 1
    /\ pc = "done" =>
          /\ pos = Len(stdin)
          /\ Wire(stdout) = Answers(<<>>, stdin, AllOutcomes)

C18_Witness ==
    /\ pc = "done"
    /\ stderr[2] =
          log_error(<<"WARNING: Cannot connect to Rust Weather API HTTP server on port 3000">>)
    /\ stdin = <<ObjectLine("1", "initialize", NoParams), ObjectLine("1", "ping", NoParams)>>
    /\ Len(stdout) = 2
    /\ IsResult(1) /\ IsResult(2)

\* ---- C19
\* the lines of an input that are not blank, in order
RECURSIVE NonBlank(_)
NonBlank(lines) ==
    IF lines = <<>> THEN <<>>
    ELSE IF Blank(Head(lines)) THEN NonBlank(Tail(lines))
    ELSE <<Head(lines)>> \o NonBlank(Tail(lines))

\* C19: no response and no backend call belongs to an empty or
\* whitespace-only line, reading such a line changes neither stdout nor
\* stderr nor the calls, and at the end stdout holds what the input
\* without its blank lines would have produced.
C19_BlankLineSkipped ==
    /\ [](/\ \A k \in 1..Len(stdout) : ~Blank(stdin[stdout[k].line])
          /\ \A j \in 1..Len(posts) : ~Blank(stdin[posts[j].line])
          /\ pc = "done" => Wire(stdout) = Answers(<<>>, NonBlank(stdin), AllOutcomes))
    /\ [][(pos' = pos + 1 /\ Blank(stdin[pos + 1])) =>
              (pc' = "read" /\ UNCHANGED <<stdout, stderr, posts>>)]_vars

C19_Witness ==
    /\ pc = "done"
    /\ Len(stdin) = 2
    /\ stdin[1] = RawLine("space")
    /\ stdin[2] = ObjectLine("1", "ping", NoParams)
    /\ Len(stdout) = 1
    /\ stdout[1].line = 2
    /\ Len(stderr) = 3

\* ---- C20
\* C20: no line has more than one response, so stdout never holds more
\* lines than non-blank lines have been read.
C20_AtMostOneResponsePerLine ==
    /\ \A i \in 1..pos : Cardinality(Responses(i)) <= 1
    /\ Len(stdout) <= Cardinality({i \in 1..pos : ~Blank(stdin[i])})

C20_Witness ==
    /\ pc = "done"
    /\ Len(stdin) = 2
    /\ Blank(stdin[1])
    /\ Outcome(2, HttpResponse(200, GarbageBody))
    /\ Len(stdout) = 1
    /\ IsError(1)

====
